---- MODULE Spec2Model ----
(***************************************************************************)
(* Model of drizzlepac/runaligndriz.py: the top-level driver `process`,    *)
(* the alignment verifier `verify_alignment` and the drizzle runner        *)
(* `run_driz`, over an abstract file system (directories, drizzle          *)
(* products, exposures, trailer files) and the process environment         *)
(* (os.environ, current working directory).                                *)
(***************************************************************************)
EXTENDS Integers, Sequences, FiniteSets, TLC

(* ------------------------------------------------------------------ *)
(* Bounds of the model                                                  *)
(* ------------------------------------------------------------------ *)
\* largest similarity index the evaluator returns (threshold is 1)
MaxSim == 2
\* largest number of rows in the table the catalog aligner returns
MaxRows == 2

(* ------------------------------------------------------------------ *)
(* Strings as sequences of characters, and str.lower()                  *)
(* ------------------------------------------------------------------ *)
lowerChar(c) ==
    CASE c = "A" -> "a" [] c = "E" -> "e" [] c = "F" -> "f" [] c = "L" -> "l"
      [] c = "N" -> "n" [] c = "O" -> "o" [] c = "R" -> "r" [] c = "S" -> "s"
      [] c = "T" -> "t" [] c = "U" -> "u" [] c = "Y" -> "y"
      [] OTHER -> c

lower(s) == [i \in 1..Len(s) |-> lowerChar(s[i])]

s_on == <<"o", "n">>
s_off == <<"o", "f", "f">>
s_yes == <<"y", "e", "s">>
s_no == <<"n", "o">>
s_true == <<"t", "r", "u", "e">>
s_false == <<"f", "a", "l", "s", "e">>

envvar_bool_dict ==
    (s_off :> FALSE) @@ (s_on :> TRUE) @@ (s_no :> FALSE) @@ (s_yes :> TRUE)
    @@ (s_false :> FALSE) @@ (s_true :> TRUE)

envvar_dict ==
    (s_off :> s_off) @@ (s_on :> s_on) @@ (s_yes :> s_on) @@ (s_no :> s_off)
    @@ (s_true :> s_on) @@ (s_false :> s_off)

envvar_compute_name == "ASTROMETRY_COMPUTE_APOSTERIORI"
envvar_new_apriori_name == "ASTROMETRY_APPLY_APRIORI"
envvar_old_apriori_name == "ASTROMETRY_STEP_CONTROL"

(* ------------------------------------------------------------------ *)
(* Directories, alignment modes                                         *)
(* ------------------------------------------------------------------ *)
\* "orig" is the directory process is started in, "work" the directory
\* _createWorkingDir makes under newpath; the other three are the tmpdir
\* arguments of the three verify_alignment calls.
Modes == {"pipeline-default", "apriori", "aposteriori"}
Dirs == {"orig", "work"} \cup Modes

\* alignment_mode argument of each call (None for the first)
alignment_mode(tmpdir) == IF tmpdir = "pipeline-default" THEN "None" ELSE tmpdir

VARIABLES
    args,          \* arguments of process (a record, never changed)
    environ,       \* os.environ restricted to the three control variables
    cwd,           \* os.getcwd()
    dirs,          \* directories that exist
    prod,          \* per directory: which attempt made the drizzle products
    expo,          \* per directory: which step last wrote the exposures
    trl,           \* per directory: contents of the trailer file found there
    logs,          \* per directory: the temporary and log files found there
    mk,            \* the mask builder (buildmask.py): inputs, output file, result
    sh,            \* the WFPC2 shadow-mask builder: template cache, output, last call
    aux,           \* other files of the processing directory and input header
    pc,            \* position of process
    excn,          \* exception that left process ("" while none)
    align_to_gaia, \* local of process
    align_dicts,   \* local of process
    va,            \* locals of the running verify_alignment call
    hist           \* history: initial snapshot, cwd at call, evaluator verdicts

vars == <<args, environ, cwd, dirs, prod, expo, trl, logs, aux, pc, excn,
          align_to_gaia, align_dicts, va, hist, mk, sh>>

(* ------------------------------------------------------------------ *)
(* Inputs                                                               *)
(* ------------------------------------------------------------------ *)
\* values an environment variable may hold
EnvValues ==
    { <<"o", "n">>, <<"O", "F", "F">>, <<"Y", "e", "s">>, <<"n", "o">>,
      <<"T", "R", "U", "E">>, <<"f", "a", "l", "s", "e">>,
      <<"m", "a", "y", "b", "e">>, <<"1">> }

\* os.environ: a function whose domain is the set of variables that are set
Environs ==
    UNION { [S -> EnvValues \cup {s_on}] :
            S \in SUBSET {envvar_compute_name, envvar_new_apriori_name,
                          envvar_old_apriori_name} }

\* the input: a name buildRootname rejects (TypeError), a file that does
\* not exist, a file fits.getval cannot read, a single exposure, an
\* association, an association with both FLT and FLC members
InKinds == {"badtype", "missing", "notfits", "single", "asn", "asnflc"}

ArgSets ==
    [inKind : InKinds, force : BOOLEAN, newpath : {"none", "abs", "rel"},
     headerlets : BOOLEAN, align_to_gaia : BOOLEAN,
     force_alignment : BOOLEAN, debug : BOOLEAN]

\* MEMNAME columns of the association tables explored: all upper case,
\* and one member upper case next to one already lower case
MemTables ==
    {<< <<"T", "A">>, <<"T", "E">> >>, << <<"T", "A">>, <<"t", "e">> >>}

\* variant: only the first row is converted
lowerAsn_first(members) ==
    [i \in 1..Len(members) |-> IF i = 1 THEN lower(members[i]) ELSE members[i]]

\* _lowerAsn, lines 709-710: MEMNAME of every row of the copy
lowerAsn(members) == [i \in 1..Len(members) |-> lower(members[i])]

\* number of input lists handed to run_driz (_inlist)
NLists(kind) == IF kind = "asnflc" THEN 2 ELSE 1

idle_va ==
    [vpc |-> "idle", tmpdir |-> "None", parent_dir |-> "unbound",
     align_table |-> <<>>, ndriz |-> 0, nfocus |-> 0,
     verified |-> FALSE, result |-> "unset"]

\* entry of verify_alignment(..., tmpdir=t, ...)
call_va(t) == [idle_va EXCEPT !.vpc = "stage", !.tmpdir = t]

\* an array: its shape and its pixels
NoArray == [shape |-> <<>>, data |-> [p \in {} |-> 0]]

\* a file that is not there
NoFile == [state |-> "absent", arr |-> NoArray]

\* the mask builder while process runs: not called
mk_idle == [phase |-> "off", op |-> "", kind |-> "", dq |-> NoArray,
            bitvalue |-> <<>>,
            maskfile |-> NoFile, result |-> NoArray, ret |-> "",
            err |-> "", raised |-> FALSE, warned |-> FALSE]

\* the shadow-mask builder while it is not the subject: never called
sh_idle == [phase |-> "off", ex |-> 0, ey |-> 0, template |-> NoFile,
            out |-> NoFile, ncalls |-> 0, dqThere |-> FALSE,
            bitvalue |-> <<>>, binned |-> 1, dq |-> NoArray,
            built |-> FALSE, err |-> "", raised |-> FALSE,
            warned |-> FALSE, ret |-> ""]

\* The runs explored: every combination of arguments with no control
\* variable set, and every setting of the control variables with the
\* arguments of a forced run on an association (or on a missing file).
\* With force set the header's DRIZCORR is not read, so one value stands
\* for it.
\* A directory an earlier run has left holds that run's product and its
\* headerlet; a fresh one holds neither.
Init ==
    /\ args \in ArgSets
    /\ environ \in Environs
    /\ \/ DOMAIN environ = {}
       \/ /\ args.inKind \in {"missing", "asnflc"}
          /\ args.force /\ args.headerlets
          /\ args.newpath = "none"
          /\ ~args.force_alignment /\ ~args.debug
    /\ \/ envvar_old_apriori_name \notin DOMAIN environ
       \/ /\ envvar_old_apriori_name \in DOMAIN environ
          /\ environ[envvar_old_apriori_name] = s_on
    /\ cwd = "orig"
    /\ dirs = {"orig"}
    /\ \E p \in {"none", "pre"} :
          prod = [d \in Dirs |-> IF d = "orig" THEN p ELSE "none"]
    /\ expo = [d \in Dirs |-> IF d = "orig" THEN "input" ELSE "none"]
    /\ trl = [d \in Dirs |-> <<>>]
    /\ logs = [d \in Dirs |-> {}]
    /\ mk = mk_idle
    /\ sh = sh_idle
    /\ \E h \in {"PERFORM", "OMIT"}, o \in BOOLEAN :
       \E mem \in (IF args.inKind \in {"asn", "asnflc"}
                   THEN MemTables ELSE {<<>>}) :
          aux = [hdrDcorr |-> h, OrIg_files |-> o, asnCopy |-> FALSE,
                 completeOn |-> "none",
                 hlet |-> IF prod["orig"] = "pre" THEN "pre" ELSE "none",
                 members |-> mem, copyMembers |-> <<>>]
    /\ (DOMAIN environ # {} => aux.OrIg_files /\ prod["orig"] = "none")
    /\ (args.force => aux.hdrDcorr = "OMIT")
    /\ pc = "start"
    /\ excn = ""
    /\ align_to_gaia = args.align_to_gaia
    /\ align_dicts = "unset"
    /\ va = idle_va
    /\ hist = [environ0 |-> environ, prod0 |-> prod["orig"],
               cwdAtCall |-> "orig", scores |-> <<>>, attempted |-> {}]

(* ------------------------------------------------------------------ *)
(* process: environment variables (lines 131-150)                      *)
(* ------------------------------------------------------------------ *)
Raise(e) == pc' = "raised" /\ excn' = e

\* `val not in <dict>` for the lower-cased value of variable `name`
envvar_invalid(name, dict) == lower(environ[name]) \notin DOMAIN dict

\* variant: the environment variable is not consulted
gaia_setting_arg_only(arg) == arg

\* align_to_gaia after lines 132-138
gaia_setting(arg) ==
    IF envvar_compute_name \in DOMAIN environ
    THEN envvar_bool_dict[lower(environ[envvar_compute_name])]
    ELSE arg

CheckEnvCompute ==
    /\ pc = "start"
    /\ IF envvar_compute_name \in DOMAIN environ
          /\ envvar_invalid(envvar_compute_name, envvar_bool_dict)
       THEN /\ Raise("ValueError")
            /\ UNCHANGED align_to_gaia
       ELSE /\ align_to_gaia' = gaia_setting(align_to_gaia)
            /\ pc' = "env2"
            /\ UNCHANGED excn
    /\ UNCHANGED <<args, mk, sh, logs, environ, cwd, dirs, prod, expo, trl, aux,
                   align_dicts, va, hist>>

\* os.environ[name] = value
setenv(env, name, value) ==
    [n \in DOMAIN env \cup {name} |-> IF n = name THEN value ELSE env[n]]

\* variant: ASTROMETRY_STEP_CONTROL is reset before the value is validated
CheckEnvApriori_set_first ==
    /\ pc = "env2"
    /\ IF envvar_new_apriori_name \in DOMAIN environ
       THEN /\ environ' = setenv(environ, envvar_old_apriori_name,
                   IF envvar_invalid(envvar_new_apriori_name, envvar_dict)
                   THEN s_off
                   ELSE envvar_dict[lower(environ[envvar_new_apriori_name])])
            /\ IF envvar_invalid(envvar_new_apriori_name, envvar_dict)
               THEN Raise("ValueError")
               ELSE pc' = "open" /\ UNCHANGED excn
       ELSE /\ pc' = "open"
            /\ UNCHANGED <<excn, environ>>
    /\ UNCHANGED <<args, mk, sh, logs, cwd, dirs, prod, expo, trl, aux,
                   align_to_gaia, align_dicts, va, hist>>

CheckEnvApriori ==
    /\ pc = "env2"
    /\ IF envvar_new_apriori_name \in DOMAIN environ
       THEN IF envvar_invalid(envvar_new_apriori_name, envvar_dict)
            THEN /\ Raise("ValueError")
                 /\ UNCHANGED environ
            ELSE /\ environ' = setenv(environ, envvar_old_apriori_name,
                          envvar_dict[lower(environ[envvar_new_apriori_name])])
                 /\ pc' = "open"
                 /\ UNCHANGED excn
       ELSE /\ pc' = "open"
            /\ UNCHANGED <<excn, environ>>
    /\ UNCHANGED <<args, mk, sh, logs, cwd, dirs, prod, expo, trl, aux,
                   align_to_gaia, align_dicts, va, hist>>

(* ------------------------------------------------------------------ *)
(* process: opening the input (lines 155-243)                          *)
(* ------------------------------------------------------------------ *)
\* variant: the bad input is raised to the caller
bad_input_pc_raise == "raised"

\* lines 156-164: what a missing file or a TypeError from buildRootname does
bad_input_pc == "returned"

OpenInput ==
    /\ pc = "open"
    /\ IF args.inKind \in {"badtype", "missing"}
       THEN pc' = bad_input_pc
       ELSE pc' = "setup"
    /\ excn' = IF pc' = "raised" THEN "InputError" ELSE excn
    /\ UNCHANGED <<args, mk, sh, logs, environ, cwd, dirs, prod, expo, trl, aux,
                   align_to_gaia, align_dicts, va, hist>>

\* open(trlfile, 'a') and write: the trailer name is relative, so the file
\* that grows is the one in the current working directory
append_trl(t, dir, lines) == [t EXCEPT ![dir] = t[dir] \o lines]

\* the trailer files and the temporary/log files, as one value
TrlState == [trl |-> trl, logs |-> logs]

\* a file `name` appears in directory `dir`
with_file(st, dir, name) == [st EXCEPT !.logs[dir] = @ \cup {name}]

\* os.remove(name) guarded by os.path.exists
without_file(st, dir, name) == [st EXCEPT !.logs[dir] = @ \ {name}]

\* variant: the trailer is opened for writing, not for appending
appendTrlFile_truncate(st, dir, drizfile, lines) ==
    IF drizfile \notin st.logs[dir] THEN st
    ELSE [trl |-> [st.trl EXCEPT ![dir] = lines],
          logs |-> [st.logs EXCEPT ![dir] = @ \ {drizfile}]]

\* _appendTrlFile(trlfile, drizfile), lines 727-748; `lines` is what
\* drizfile holds
appendTrlFile(st, dir, drizfile, lines) ==
    IF drizfile \notin st.logs[dir] THEN st
    ELSE [trl |-> append_trl(st.trl, dir, lines),
          logs |-> [st.logs EXCEPT ![dir] = @ \ {drizfile}]]

\* _updateTrlFile(trlfile, trl_lines), lines 715-724
updateTrlFile(st, dir, lines) ==
    appendTrlFile(with_file(st, dir, "_tmp.tra"), dir, "_tmp.tra", lines)

SetTrl(st) == trl' = st.trl /\ logs' = st.logs

\* lines 167-171, then 174-243: fits.getval at line 179 raises on a file
\* that is not FITS, before _lowerAsn and before the trailer is opened
SetupWorkingDir ==
    /\ pc = "setup"
    /\ IF args.newpath # "none"
       THEN /\ dirs' = dirs \cup {"work"}
            /\ prod' = [prod EXCEPT !["work"] = prod["orig"]]
            /\ expo' = [expo EXCEPT !["work"] = expo["orig"]]
            /\ cwd' = "work"
       ELSE UNCHANGED <<dirs, prod, expo, cwd>>
    /\ IF args.inKind = "notfits"
       THEN /\ Raise("OSError")
            /\ UNCHANGED <<aux, trl, logs>>
       ELSE /\ aux' = [aux EXCEPT
                          !.asnCopy = (args.inKind \in {"asn", "asnflc"}),
                          !.copyMembers = lowerAsn(aux.members)]
            /\ SetTrl(updateTrlFile(TrlState, cwd', <<"pipeline started">>))
            /\ pc' = "dcorr"
            /\ UNCHANGED excn
    /\ UNCHANGED <<args, mk, sh, environ, align_to_gaia, align_dicts, va, hist>>

\* lines 247-264
dcorr_value == IF args.force THEN "PERFORM" ELSE aux.hdrDcorr

\* lines 266-350 (PERFORM) or 395-406 (the skip branch, whose format
\* expression at line 402 raises TypeError)
CheckDcorr ==
    /\ pc = "dcorr"
    /\ IF dcorr_value = "PERFORM"
       THEN /\ expo' = [expo EXCEPT ![cwd] = "pipeline-wcs"]
            /\ pc' = "attempt"
            /\ va' = call_va("pipeline-default")
            /\ hist' = [hist EXCEPT !.cwdAtCall = cwd,
                          !.attempted = @ \cup {"pipeline-default"}]
            /\ UNCHANGED excn
       ELSE /\ Raise("TypeError")
            /\ UNCHANGED <<expo, va, hist>>
    /\ UNCHANGED <<args, mk, sh, logs, environ, cwd, dirs, prod, trl, aux,
                   align_to_gaia, align_dicts>>

(* ------------------------------------------------------------------ *)
(* verify_alignment (lines 538-693)                                    *)
(* ------------------------------------------------------------------ *)
InAttempt(at) == pc = "attempt" /\ va.vpc = at

\* variant: no chdir back in the finally block
finally_cwd_stay(parent_dir, c) == c

\* the finally block, line 691: os.chdir(parent_dir); with parent_dir not
\* yet bound the statement raises UnboundLocalError and moves nowhere
finally_cwd(parent_dir, c) == IF parent_dir = "unbound" THEN c ELSE parent_dir

finally_excn(parent_dir, e) ==
    IF parent_dir = "unbound" THEN "UnboundLocalError" ELSE e

\* an exception leaving verify_alignment: process has no handler
va_raise(e) ==
    /\ cwd' = finally_cwd(va.parent_dir, cwd)
    /\ Raise(finally_excn(va.parent_dir, e))
    /\ va' = [va EXCEPT !.vpc = "raised"]

va_return(v, r) ==
    /\ cwd' = finally_cwd(v.parent_dir, cwd)
    /\ va' = [v EXCEPT !.vpc = "returned", !.result = r]
    /\ UNCHANGED <<pc, excn>>

\* lines 561-571: staging
VA_Stage ==
    /\ InAttempt("stage")
    /\ \E fail \in {"no", "makedirs", "copy"} :
         IF fail = "no"
         THEN /\ dirs' = dirs \cup {va.tmpdir}
              /\ expo' = [expo EXCEPT ![va.tmpdir] = expo[cwd]]
              /\ va' = [va EXCEPT !.vpc = "wcs", !.parent_dir = cwd]
              /\ cwd' = va.tmpdir
              /\ UNCHANGED <<pc, excn>>
         ELSE /\ dirs' = IF fail = "copy" THEN dirs \cup {va.tmpdir} ELSE dirs
              /\ va_raise("OSError")
              /\ UNCHANGED expo
    /\ UNCHANGED <<args, mk, sh, logs, environ, prod, trl, aux, align_to_gaia,
                   align_dicts, hist>>

\* tables the catalog aligner may return: one status per row
AlignTables == UNION { [1..n -> {0, 1}] : n \in 1..MaxRows }

\* variant: only the first row's status is examined
rows_ok_first(table) == table[1] = 0

\* lines 598-605: no row makes the loop return
rows_ok(table) == \A i \in 1..Len(table) : table[i] = 0

\* trlmsg as built by lines 590 and 598-601 when every row has status 0
align_trlmsg(table) ==
    <<"Align_to_GAIA started">>
      \o [i \in 1..Len(table) |-> "Successfully aligned"]

\* what lines 602-605 leave in the trailer for a row with status != 0
could_not_align_lines == <<>>

\* lines 590-639, perform_align raised (lines 606-612)
trl_align_exception(st, dir) ==
    updateTrlFile(updateTrlFile(st, dir, <<"Align_to_GAIA started">>),
                  dir, <<"EXCEPTION encountered in alignimages">>)

\* lines 590-605, a row with status != 0: perform_align has left its log
trl_align_failed(st, dir) ==
    with_file(updateTrlFile(st, dir,
                  <<"Align_to_GAIA started">> \o could_not_align_lines),
              dir, "_align.log")

\* lines 590-639, every row with status 0: the copy of the aligner's log
\* is appended, then trlmsg, then the closing line
trl_align_done(st, dir, table) ==
    LET st1 == updateTrlFile(st, dir, <<"Align_to_GAIA started">>)
        st2 == with_file(with_file(st1, dir, "_align.log"),
                         dir, "_align_copy.log")
        st3 == appendTrlFile(st2, dir, "_align_copy.log", <<"align log">>)
        st4 == updateTrlFile(st3, dir, align_trlmsg(table))
    IN updateTrlFile(st4, dir, <<"Align_to_GAIA completed">>)

\* lines 583-639: the WCS correction step
VA_WcsCorrection ==
    /\ InAttempt("wcs")
    /\ CASE alignment_mode(va.tmpdir) = "None" ->
              /\ va' = [va EXCEPT !.vpc = "driz"]
              /\ UNCHANGED <<cwd, pc, excn, expo, trl, logs>>
         [] alignment_mode(va.tmpdir) = "apriori" ->
              \/ /\ expo' = [expo EXCEPT ![cwd] = "apriori"]
                 /\ va' = [va EXCEPT !.vpc = "driz"]
                 /\ UNCHANGED <<cwd, pc, excn, trl, logs>>
              \/ /\ va_raise("updatewcs")
                 /\ UNCHANGED <<expo, trl, logs>>
         [] alignment_mode(va.tmpdir) = "aposteriori" ->
              \/ \* perform_align raises: lines 606-612
                 /\ SetTrl(trl_align_exception(TrlState, cwd))
                 /\ va_return(va, "None")
                 /\ UNCHANGED expo
              \/ \E table \in AlignTables :
                   /\ expo' = [expo EXCEPT ![cwd] = "aposteriori"]
                   /\ IF rows_ok(table)
                      THEN /\ SetTrl(trl_align_done(TrlState, cwd, table))
                           /\ va' = [va EXCEPT !.vpc = "driz",
                                               !.align_table = table]
                           /\ UNCHANGED <<cwd, pc, excn>>
                      ELSE /\ SetTrl(trl_align_failed(TrlState, cwd))
                           /\ va_return([va EXCEPT !.align_table = table],
                                        "None")
    /\ UNCHANGED <<args, mk, sh, environ, dirs, prod, aux, align_to_gaia,
                   align_dicts, hist>>

\* run_driz, lines 492-534, AstroDrizzle succeeded: its log is copied, the
\* copy appended to the trailer, the log removed
trl_driz_done(st, dir) ==
    LET st1 == updateTrlFile(st, dir, <<"astrodrizzle started">>)
        st2 == with_file(with_file(st1, dir, "_pydriz.log"),
                         dir, "_pydriz_copy.log")
        st3 == appendTrlFile(st2, dir, "_pydriz_copy.log", <<"drizzle log">>)
    IN without_file(st3, dir, "_pydriz.log")

\* variant: the error lines alone
trl_driz_failed_nolog(st, dir) ==
    [st EXCEPT !.trl = append_trl(@, dir,
        <<"astrodrizzle started", "ERROR: Could not complete astrodrizzle">>)]

\* run_driz, lines 492-513, AstroDrizzle raised: its log and its stderr
\* file (when there is one) are appended, then the error lines written
trl_driz_failed(st, dir) ==
    LET st1 == updateTrlFile(st, dir, <<"astrodrizzle started">>)
        st2 == appendTrlFile(with_file(st1, dir, "_pydriz.log"),
                             dir, "_pydriz.log", <<"drizzle log">>)
        st3 == appendTrlFile(st2, dir, "_pydriz.stderr", <<"drizzle stderr">>)
    IN [st3 EXCEPT !.trl = append_trl(@, dir,
                      <<"ERROR: Could not complete astrodrizzle">>)]

\* run_driz, lines 483-536: one pass of the loop over inlist
VA_Drizzle ==
    /\ InAttempt("driz")
    /\ \/ \* AstroDrizzle succeeds: product, focus dict, log appended
          /\ prod' = [prod EXCEPT ![cwd] = va.tmpdir]
          /\ expo' = [expo EXCEPT ![cwd] = va.tmpdir]
          /\ SetTrl(trl_driz_done(TrlState, cwd))
          /\ va' = [va EXCEPT !.ndriz = @ + 1, !.nfocus = @ + 1,
                       !.vpc = IF va.ndriz + 1 = NLists(args.inKind)
                               THEN "score" ELSE "driz"]
          /\ UNCHANGED <<cwd, pc, excn>>
       \/ \* AstroDrizzle raises: lines 505-515
          /\ SetTrl(trl_driz_failed(TrlState, cwd))
          /\ va_raise("Exception")
          /\ UNCHANGED <<prod, expo>>
    /\ UNCHANGED <<args, mk, sh, environ, dirs, aux, align_to_gaia, align_dicts, hist>>

\* variant: the similarity index is not folded into the verdict
alignment_verified_focus_only(mode, focus, sim) == focus

\* lines 650-668: alignment_verified as it stands at line 678
alignment_verified(mode, focus, sim) ==
    IF mode # "None" /\ sim > 1 THEN FALSE ELSE focus

\* lines 646-686: the lines of _trlmsg
verify_msgs(mode, focus, sim, force_alignment) ==
    <<"Verification of alignment started",
      IF focus THEN "Focus SUCCEEDED" ELSE "Focus FAILED">>
    \o (IF mode = "None" THEN <<>>
        ELSE IF sim > 1
             THEN <<"similarity FAILED",
                    IF force_alignment
                    THEN "KEEPING potentially compromised astrometry solution"
                    ELSE "Reverting to pipeline-default">>
             ELSE <<"similarity succeeded">>)
    \o (IF alignment_verified(mode, focus, sim)
        THEN <<"Saving products with new alignment">> ELSE <<>>)
    \o <<"Verification of alignment completed">>

\* variant: the copy is not guarded by alignment_verified
copy_back_always(files, verified, parent, tmp) ==
    [files EXCEPT ![parent] = files[tmp]]

\* lines 678-684: shutil.copy of the files of `tmp` into `parent`
copy_back(files, verified, parent, tmp) ==
    IF verified THEN [files EXCEPT ![parent] = files[tmp]] ELSE files

\* lines 645-693: scoring, saving, return
VA_Score ==
    /\ InAttempt("score")
    /\ \E focus \in BOOLEAN, sim \in 0..MaxSim :
         LET mode == alignment_mode(va.tmpdir)
             ref == prod[va.parent_dir]
             ok == alignment_verified(mode, focus, sim)
         IN IF mode # "None" /\ ref = "none"
            THEN \* line 662: no product in the parent directory to read
                 /\ va_raise("FileNotFoundError")
                 /\ UNCHANGED <<prod, expo, trl, logs, hist>>
            ELSE /\ (mode = "None" => sim = 0)
                 /\ prod' = copy_back(prod, ok, va.parent_dir, cwd)
                 /\ expo' = copy_back(expo, ok, va.parent_dir, cwd)
                 /\ SetTrl(updateTrlFile(TrlState, cwd,
                        verify_msgs(mode, focus, sim, args.force_alignment)))
                 /\ hist' = [hist EXCEPT !.scores = Append(@,
                        [tmpdir |-> va.tmpdir, focus |-> focus, sim |-> sim,
                         ref |-> IF mode = "None" THEN "n/a" ELSE ref])]
                 /\ va_return([va EXCEPT !.verified = ok], "focus_dicts")
    /\ UNCHANGED <<args, mk, sh, environ, dirs, aux, align_to_gaia, align_dicts>>

\* truth value of what verify_alignment returned (focus_dicts holds one
\* entry per input list, so it is never empty)
truthy(result) == result # "None"

\* process, lines 345-380: the assignments after each call and the next call
AfterAttempt ==
    /\ InAttempt("returned")
    /\ align_dicts' = IF va.tmpdir = "pipeline-default" \/ truthy(va.result)
                      THEN IF truthy(va.result) THEN va.tmpdir ELSE "None"
                      ELSE align_dicts
    /\ LET next == CASE va.tmpdir = "pipeline-default" -> "apriori"
                     [] va.tmpdir = "apriori" /\ align_to_gaia -> "aposteriori"
                     [] OTHER -> "none"
       IN IF next = "none"
          THEN /\ pc' = "complete"
               /\ va' = idle_va
               /\ UNCHANGED hist
          ELSE /\ va' = call_va(next)
               /\ hist' = [hist EXCEPT !.cwdAtCall = cwd,
                             !.attempted = @ \cup {next}]
               /\ UNCHANGED pc
    /\ UNCHANGED <<args, mk, sh, logs, environ, cwd, dirs, prod, expo, trl, aux, excn,
                   align_to_gaia>>

(* ------------------------------------------------------------------ *)
(* process: after the attempts (lines 382-471)                         *)
(* ------------------------------------------------------------------ *)
\* lines 384-393: DRIZCORR = COMPLETE is written to _cal_prodname, which is
\* the calibrated exposure for a singleton (line 274) and the '_pipeline'
\* copy of the association table otherwise (line 294)
MarkComplete ==
    /\ pc = "complete"
    /\ aux' = [aux EXCEPT !.completeOn =
                 IF args.inKind = "single" THEN "exposure" ELSE "asncopy"]
    /\ pc' = "cleanup"
    /\ UNCHANGED <<args, mk, sh, logs, environ, cwd, dirs, prod, expo, trl, excn,
                   align_to_gaia, align_dicts, va, hist>>

\* lines 409-413: remove the new ASN table, then shutil.rmtree("OrIg_files")
\* which raises when there is no such directory
Cleanup ==
    /\ pc = "cleanup"
    /\ aux' = [aux EXCEPT !.asnCopy = FALSE, !.copyMembers = <<>>,
                          !.OrIg_files = FALSE]
    /\ IF aux.OrIg_files
       THEN pc' = "headerlets" /\ UNCHANGED excn
       ELSE Raise("FileNotFoundError")
    /\ UNCHANGED <<args, mk, sh, logs, environ, cwd, dirs, prod, expo, trl,
                   align_to_gaia, align_dicts, va, hist>>

\* variant: the headerlet is written whether one exists or not
write_hlet_clobber(headerlets, hlet, ok) ==
    IF headerlets /\ ok THEN "OPUS" ELSE hlet

\* lines 417-432: the headerlet file of a calibrated exposure after the
\* loop; ok is false when write_headerlet raises ValueError
write_hlet(headerlets, hlet, ok) ==
    IF headerlets /\ hlet = "none" /\ ok THEN "OPUS" ELSE hlet

\* lines 417-437
WriteHeaderlets ==
    /\ pc = "headerlets"
    /\ \E ok \in BOOLEAN :
         aux' = [aux EXCEPT !.hlet = write_hlet(args.headerlets, @, ok)]
    /\ trl' = IF args.headerlets
              THEN append_trl(trl, cwd, <<"Writing Headerlets">>)
              ELSE trl
    /\ pc' = "rmtmp"
    /\ UNCHANGED <<args, mk, sh, logs, environ, cwd, dirs, prod, expo, excn,
                   align_to_gaia, align_dicts, va, hist>>

\* directories removed by lines 439-444
tmp_removed ==
    IF args.debug THEN {}
    ELSE {"pipeline-default", "apriori"}
           \cup (IF align_to_gaia THEN {"aposteriori"} ELSE {})

wipe(files, gone, empty) == [d \in Dirs |-> IF d \in gone THEN empty ELSE files[d]]

RemoveTmpDirs ==
    /\ pc = "rmtmp"
    /\ dirs' = dirs \ tmp_removed
    /\ prod' = wipe(prod, tmp_removed, "none")
    /\ expo' = wipe(expo, tmp_removed, "none")
    /\ trl' = wipe(trl, tmp_removed, <<>>)
    /\ logs' = wipe(logs, tmp_removed, {})
    /\ pc' = "restore"
    /\ UNCHANGED <<args, mk, sh, environ, cwd, aux, excn, align_to_gaia,
                   align_dicts, va, hist>>

\* lines 454-457: with a relative newpath the glob of _restoreResults and
\* the rmdir of _removeWorkingDir resolve against the working directory
\* itself, so nothing is moved and rmdir finds the directory not empty
RestoreResults ==
    /\ pc = "restore"
    /\ CASE args.newpath = "none" ->
              /\ pc' = "final"
              /\ logs' = [logs EXCEPT ![cwd] = @ \ {"_align.log"}]
              /\ UNCHANGED <<cwd, dirs, prod, expo, trl, excn>>
         [] args.newpath = "abs" ->
              /\ prod' = [prod EXCEPT !["orig"] = prod["work"], !["work"] = "none"]
              /\ expo' = [expo EXCEPT !["orig"] = expo["work"], !["work"] = "none"]
              /\ trl' = [trl EXCEPT !["orig"] = trl["work"], !["work"] = <<>>]
              /\ logs' = [logs EXCEPT
                            !["orig"] = @ \cup (logs["work"] \ {"_align.log"}),
                            !["work"] = {}]
              /\ cwd' = "orig"
              /\ dirs' = dirs \ {"work"}
              /\ pc' = "final"
              /\ UNCHANGED excn
         [] args.newpath = "rel" ->
              /\ cwd' = "orig"
              /\ Raise("OSError")
              /\ logs' = [logs EXCEPT ![cwd] = @ \ {"_align.log"}]
              /\ UNCHANGED <<dirs, prod, expo, trl>>
    /\ UNCHANGED <<args, mk, sh, environ, aux, align_to_gaia, align_dicts, va, hist>>

\* lines 459-471
FinalTimestamp ==
    /\ pc = "final"
    /\ SetTrl(updateTrlFile(TrlState, cwd, <<"astrodrizzle completed">>))
    /\ pc' = "done"
    /\ UNCHANGED <<args, mk, sh, environ, cwd, dirs, prod, expo, aux, excn,
                   align_to_gaia, align_dicts, va, hist>>

Next ==
    \/ CheckEnvCompute
    \/ CheckEnvApriori
    \/ OpenInput
    \/ SetupWorkingDir
    \/ CheckDcorr
    \/ VA_Stage
    \/ VA_WcsCorrection
    \/ VA_Drizzle
    \/ VA_Score
    \/ AfterAttempt
    \/ MarkComplete
    \/ Cleanup
    \/ WriteHeaderlets
    \/ RemoveTmpDirs
    \/ RestoreResults
    \/ FinalTimestamp

Spec == Init /\ [][Next]_vars

(* ------------------------------------------------------------------ *)
(* buildmask.py: buildMask and buildMaskImage                          *)
(* ------------------------------------------------------------------ *)
MaxH == 2      \* rows of a DQ array
MaxW == 2      \* columns of a DQ array
MaxDQ == 3     \* largest DQ value of a pixel
MaxBit == 3    \* largest bit selector

Pixels(shape) == (1..shape[1]) \X (1..shape[2])

Arrays(h, w, vals) ==
    {[shape |-> <<h, w>>, data |-> d] : d \in [(1..h) \X (1..w) -> vals]}

DQArrays == UNION {Arrays(h, w, 0..MaxDQ) : h \in 1..MaxH, w \in 1..MaxW}

\* bitvalue: <<>> is None, <<b>> the integer b
BitValues == {<<>>} \cup {<<b>> : b \in 0..MaxBit}

\* variant: the bits are and-ed
RECURSIVE bitwise_and(_, _)
bitwise_and(a, b) ==
    IF a = 0 \/ b = 0 THEN 0
    ELSE (IF a % 2 = 1 /\ b % 2 = 1 THEN 1 ELSE 0)
         + 2 * bitwise_and(a \div 2, b \div 2)

\* N.bitwise_or on two non-negative integers
RECURSIVE bitwise_or(_, _)
bitwise_or(a, b) ==
    IF a = 0 THEN b
    ELSE IF b = 0 THEN a
    ELSE (IF a % 2 = 1 \/ b % 2 = 1 THEN 1 ELSE 0)
         + 2 * bitwise_or(a \div 2, b \div 2)

\* N.greater
greater(a, b) == a > b

\* variant: the two choices in the other order
choose_01(c) == IF c THEN 1 ELSE 0

\* N.choose(c, (1,0)): False picks entry 0, True picks entry 1
choose_10(c) == IF c THEN 0 ELSE 1

\* astype(N.uint8)
astype_uint8(v) == v % 256

\* the shape two arrays are broadcast to, for a 2-d array and the 1-d
\* array N.array([bitvalue])
broadcast(shape, one) == <<shape[1], IF shape[2] = 1 THEN one[1] ELSE shape[2]>>

\* variant: the DQ values are kept
no_mask_keep(v) == v + 1

\* (dqarr * 0.0) + 1.0 on one pixel
no_mask(v) == (v * 0) + 1

\* buildMask(dqarr, bitvalue), lines 79-84
buildMask(dqarr, bitvalue) ==
    IF bitvalue = <<>>
    THEN [shape |-> dqarr.shape,
          data |-> [p \in DOMAIN dqarr.data |-> no_mask(dqarr.data[p])]]
    ELSE LET b == bitvalue[1]
             shp == broadcast(dqarr.shape, <<1>>)
             maskarr == [p \in Pixels(shp) |-> bitwise_or(dqarr.data[p], b)]
         IN [shape |-> shp,
             data |-> [p \in Pixels(shp) |->
                         astype_uint8(choose_10(greater(maskarr[p], b)))]]

\* variant: an array of ones
zeros_ones(shape) == [shape |-> shape, data |-> [p \in Pixels(shape) |-> 1]]

\* N.zeros(_shape, dtype=N.uint16)
zeros(shape) == [shape |-> shape, data |-> [p \in Pixels(shape) |-> 0]]

Size(arr) == Cardinality(DOMAIN arr.data)

\* what rootname names: a file that cannot be opened, an image with a DQ
\* extension, one with a SCI extension only, one with neither
FileKinds == {"unreadable", "dq", "sci", "neither"}

\* where writing the mask fails: not at all, in pyfits.open (nothing on
\* disk yet), in close (part of the file on disk)
WriteFailures == {"no", "open", "close"}

\* `dqarr == None` on an array: False in numpy releases that compare the
\* array as a whole, element by element in later ones
NoneCompare == {"scalar", "elementwise"}

\* `if dqarr == None:` raises when the comparison is made element by
\* element and the array has more than one element
truth_value_raises(kind, cmp, dqarr) ==
    kind = "dq" /\ cmp = "elementwise" /\ Size(dqarr) > 1

\* lines 109-138: the body of the try; the outcome and what is on disk
\* under maskname when the body is left
try_body(kind, wfail, cmp, dq, bitvalue) ==
    IF truth_value_raises(kind, cmp, dq)
    THEN [err |-> "compare", file |-> NoFile]
    ELSE IF kind = "neither"
    THEN [err |-> "noext", file |-> NoFile]
    ELSE LET dqarr == IF kind = "dq" THEN dq ELSE zeros(dq.shape)
             maskarr == buildMask(dqarr, bitvalue)
         IN CASE wfail = "open" -> [err |-> "write", file |-> NoFile]
              [] wfail = "close" ->
                   [err |-> "write",
                    file |-> [state |-> "partial", arr |-> maskarr]]
              [] OTHER ->
                   [err |-> "none",
                    file |-> [state |-> "written", arr |-> maskarr]]

\* lines 144-145: if fileutil.findFile(maskname): os.remove(maskname)
remove_partial(file) == NoFile

\* buildMask applied to the inputs
BuildMask ==
    /\ mk.phase = "init"
    /\ mk' = [mk EXCEPT !.phase = "done", !.op = "buildMask",
                        !.result = buildMask(mk.dq, mk.bitvalue)]
    /\ UNCHANGED <<args, environ, cwd, dirs, prod, expo, trl, logs, aux, pc,
                   excn, align_to_gaia, align_dicts, va, hist, sh>>

\* buildMaskImage(rootname, bitvalue, output), lines 87-152
BuildMaskImage ==
    /\ mk.phase = "init"
    /\ \E kind \in FileKinds, wfail \in WriteFailures, cmp \in NoneCompare :
         IF kind = "unreadable"
         THEN \* line 107 is outside the try: the exception leaves the function
              mk' = [mk EXCEPT !.phase = "done", !.op = "buildMaskImage",
                               !.kind = kind, !.maskfile = NoFile, !.err = "open",
                               !.raised = TRUE]
         ELSE LET t == try_body(kind, wfail, cmp, mk.dq, mk.bitvalue)
              IN IF t.err # "none"
                 THEN mk' = [mk EXCEPT !.phase = "done", !.kind = kind,
                                       !.op = "buildMaskImage",
                                       !.maskfile = remove_partial(t.file),
                                       !.err = t.err, !.warned = TRUE,
                                       !.ret = "None"]
                 ELSE mk' = [mk EXCEPT !.phase = "done", !.kind = kind,
                                       !.op = "buildMaskImage",
                                       !.maskfile = t.file, !.err = "none",
                                       !.result = t.file.arr,
                                       !.ret = "maskname"]
    /\ UNCHANGED <<args, environ, cwd, dirs, prod, expo, trl, logs, aux, pc,
                   excn, align_to_gaia, align_dicts, va, hist, sh>>

\* process is not running
ProcessOff ==
    /\ args = [inKind |-> "missing", force |-> FALSE, newpath |-> "none",
               headerlets |-> FALSE, align_to_gaia |-> FALSE,
               force_alignment |-> FALSE, debug |-> FALSE]
    /\ environ = <<>>
    /\ cwd = "orig"
    /\ dirs = {"orig"}
    /\ prod = [d \in Dirs |-> "none"]
    /\ expo = [d \in Dirs |-> "none"]
    /\ trl = [d \in Dirs |-> <<>>]
    /\ logs = [d \in Dirs |-> {}]
    /\ aux = [hdrDcorr |-> "OMIT", OrIg_files |-> FALSE, asnCopy |-> FALSE,
              completeOn |-> "none", hlet |-> "none", members |-> <<>>,
              copyMembers |-> <<>>]
    /\ pc = "off"
    /\ excn = ""
    /\ align_to_gaia = FALSE
    /\ align_dicts = "None"
    /\ va = idle_va
    /\ hist = [environ0 |-> <<>>, prod0 |-> "none", cwdAtCall |-> "orig",
               scores |-> <<>>, attempted |-> {}]

\* the mask builder on its own: any DQ array (its shape is also that of
\* the SCI extension), any bit selector, an old mask file there or not
InitMask ==
    /\ \E dq \in DQArrays, b \in BitValues, old \in BOOLEAN :
         mk = [mk_idle EXCEPT !.phase = "init", !.dq = dq, !.bitvalue = b,
                 !.maskfile = IF old THEN [state |-> "old", arr |-> NoArray]
                              ELSE NoFile]
    /\ sh = sh_idle
    /\ ProcessOff

NextMask ==
    \/ BuildMask
    \/ BuildMaskImage

SpecMask == InitMask /\ [][NextMask]_vars

(* ------------------------------------------------------------------ *)
(* buildmask.py: buildShadowMaskImage                                  *)
(* ------------------------------------------------------------------ *)
ShadowHalf == 2     \* half the side of the detector array (400 of 800)
MaxCalls == 2       \* calls of buildShadowMaskImage in one run

\* the side of the detector array, (800,800) in the code
ShadowSize == 2 * ShadowHalf

\* N.clip(f, 0.0, 1.0).astype(N.uint8) for one of the edge polynomials:
\* each polynomial grows with its index over the whole detector, so the
\* clipped and truncated value is 0 below an edge and 1 from it on
shadow_step(edge, x) == IF x >= edge THEN 1 ELSE 0

\* _xarr: the x polynomial reads the first index only (lines 165, 216)
shadow_xarr(edge) ==
    [shape |-> <<ShadowSize, ShadowSize>>,
     data |-> [p \in Pixels(<<ShadowSize, ShadowSize>>) |->
                 shadow_step(edge, p[1] - 1)]]

\* _yarr: the y polynomial reads the second index only (lines 163, 217)
shadow_yarr(edge) ==
    [shape |-> <<ShadowSize, ShadowSize>>,
     data |-> [p \in Pixels(<<ShadowSize, ShadowSize>>) |->
                 shadow_step(edge, p[2] - 1)]]

\* maskarr = _xarr * _yarr
array_mul(a, b) ==
    [shape |-> a.shape, data |-> [p \in DOMAIN a.data |-> a.data[p] * b.data[p]]]

\* arr[r0::2, c0::2]
slice2(arr, r0, c0) ==
    LET shp == <<(arr.shape[1] - r0 + 1) \div 2,
                 (arr.shape[2] - c0 + 1) \div 2>>
    IN [shape |-> shp,
        data |-> [p \in Pixels(shp) |->
                    arr.data[<<2 * (p[1] - 1) + r0 + 1,
                               2 * (p[2] - 1) + c0 + 1>>]]]

\* bmaskarr *= factor, bmaskarr being a view of maskarr[::2,::2]: the
\* product is stored in maskarr itself
imul_view(maskarr, factor) ==
    [maskarr EXCEPT !.data =
        [p \in DOMAIN maskarr.data |->
            IF p[1] % 2 = 1 /\ p[2] % 2 = 1
            THEN maskarr.data[p] * factor.data[<<(p[1] + 1) \div 2,
                                                (p[2] + 1) \div 2>>]
            ELSE maskarr.data[p]]]

\* variant: the subsample of the odd rows and columns alone
bin_mask_odd(maskarr) == slice2(maskarr, 1, 1)

\* lines 222-226: the four subsamples multiplied, then copied
bin_mask(maskarr) ==
    LET m1 == imul_view(maskarr, slice2(maskarr, 1, 0))
        m2 == imul_view(m1, slice2(m1, 0, 1))
        m3 == imul_view(m2, slice2(m2, 1, 1))
    IN slice2(m3, 0, 0)

\* lines 213-227: the template array of this call
template_array(ex, ey, binned) ==
    LET maskarr == array_mul(shadow_xarr(ex), shadow_yarr(ey))
    IN IF binned # 1 THEN bin_mask(maskarr) ELSE maskarr

\* DQ arrays of a .c1h file: a clean chip with one pixel of the diagonal
\* carrying the value v
SpotArrays(n) ==
    {[shape |-> <<n, n>>,
      data |-> [p \in Pixels(<<n, n>>) |-> IF p = <<k, k>> THEN v ELSE 0]] :
        k \in 1..n, v \in 0..MaxDQ}

\* the values of `binned`
Binnings == {1, 2}

\* where the DQ branch fails: not at all, opening the DQ file, reading
\* the extension, opening the output, closing it
DQFailures == {"no", "open", "read", "write_open", "write_close"}

\* lines 208-238: the template file after the check of the cache, and
\* whether the function goes on
cache_template(template, use_inmask, ex, ey, binned, tfail) ==
    IF ~(use_inmask /\ template.state = "absent")
    THEN [go |-> TRUE, built |-> FALSE, file |-> template]
    ELSE CASE tfail = "open" ->
                [go |-> FALSE, built |-> FALSE, file |-> NoFile]
           [] tfail = "close" ->
                [go |-> FALSE, built |-> FALSE,
                 file |-> [state |-> "partial",
                           arr |-> template_array(ex, ey, binned)]]
           [] OTHER ->
                [go |-> TRUE, built |-> TRUE,
                 file |-> [state |-> "written",
                           arr |-> template_array(ex, ey, binned)]]

\* buildShadowMaskImage(dqfile, detnum, extnum, maskname, bitvalue, binned),
\* lines 186-288
BuildShadowMaskImage ==
    /\ sh.phase = "ready"
    /\ sh.ncalls < MaxCalls
    /\ \E dqThere \in BOOLEAN, b \in BitValues, binned \in Binnings :
       \E tfail \in (IF (~dqThere \/ b = <<>>) /\ sh.template.state = "absent"
                     THEN WriteFailures ELSE {"no"}),
          dfail \in (IF ~dqThere \/ b = <<>> THEN {"no"} ELSE DQFailures) :
       \E dq \in (IF ~dqThere \/ b = <<>> \/ dfail # "no" THEN {NoArray}
                  ELSE SpotArrays(ShadowSize \div binned)) :
         LET use_inmask == ~dqThere \/ b = <<>>
             c == cache_template(sh.template, use_inmask, sh.ex, sh.ey,
                                 binned, tfail)
             call == [sh EXCEPT !.ncalls = @ + 1, !.dqThere = dqThere,
                                !.bitvalue = b, !.binned = binned,
                                !.dq = dq, !.template = c.file,
                                !.built = c.built, !.out = NoFile,
                                !.err = "none", !.raised = FALSE,
                                !.warned = FALSE, !.ret = ""]
         IN IF ~c.go
            THEN \* lines 237-238
                 sh' = [call EXCEPT !.err = "template", !.ret = "None"]
            ELSE IF use_inmask
            THEN \* lines 242-249: the template is copied to the output
                 sh' = [call EXCEPT !.out = c.file, !.ret = "maskname"]
            ELSE CASE dfail = "open" ->
                        \* line 254 is outside the try
                        sh' = [call EXCEPT !.err = "open", !.raised = TRUE]
                   [] dfail \in {"read", "write_open", "write_close"} ->
                        \* lines 275-284: the file is removed, then the
                        \* message is built from `rootname`, a name this
                        \* function does not have: NameError
                        sh' = [call EXCEPT
                                 !.err = IF dfail = "read" THEN "read"
                                         ELSE "write",
                                 !.out = remove_partial(
                                    IF dfail = "write_close"
                                    THEN [state |-> "partial",
                                          arr |-> NoArray]
                                    ELSE NoFile),
                                 !.raised = TRUE]
                   [] OTHER ->
                        sh' = [call EXCEPT
                                 !.out = [state |-> "written",
                                          arr |-> buildMask(dq, b)],
                                 !.ret = "maskname"]
    /\ UNCHANGED <<args, environ, cwd, dirs, prod, expo, trl, logs, aux, pc,
                   excn, align_to_gaia, align_dicts, va, hist, mk>>

\* the shadow-mask builder on its own: no template cached yet, the two
\* edges of the detector anywhere on the array
InitShadow ==
    /\ \E ex, ey \in 0..ShadowSize, old \in BOOLEAN :
         sh = [sh_idle EXCEPT !.phase = "ready", !.ex = ex, !.ey = ey,
                 !.out = IF old THEN [state |-> "old", arr |-> NoArray]
                         ELSE NoFile]
    /\ mk = mk_idle
    /\ ProcessOff

NextShadow == BuildShadowMaskImage

SpecShadow == InitShadow /\ [][NextShadow]_vars

(* ------------------------------------------------------------------ *)
(* Properties                                                           *)
(* ------------------------------------------------------------------ *)
ValidWords == {s_on, s_off, s_yes, s_no, s_true, s_false}
TrueWords == {s_on, s_yes, s_true}

\* the verdict an attempt deserves from the evaluator's answers alone
Accepted(s) == s.focus /\ (s.tmpdir = "pipeline-default" \/ s.sim <= 1)

AcceptedIdx == {i \in 1..Len(hist.scores) : Accepted(hist.scores[i])}

LastAccepted ==
    IF AcceptedIdx = {} THEN "none"
    ELSE hist.scores[CHOOSE i \in AcceptedIdx : \A j \in AcceptedIdx : j <= i].tmpdir

\* the directory that holds the results: the processing directory
Holder == IF "work" \in dirs THEN "work" ELSE "orig"

LastScore == hist.scores[Len(hist.scores)]

\* verify_alignment has just returned from the scoring path
JustScored ==
    /\ pc = "attempt" /\ va.vpc = "returned" /\ va.result = "focus_dicts"

HasBadRow(table) == \E i \in 1..Len(table) : table[i] # 0

InSomeTrailer(line) ==
    \E d \in Dirs : \E i \in 1..Len(trl[d]) : trl[d][i] = line

\* nothing on disk was read into a new place, written or created, and the
\* working directory is where it was
FsUntouched ==
    /\ cwd = "orig"
    /\ dirs = {"orig"}
    /\ \A d \in Dirs : trl[d] = <<>>
    /\ prod = [d \in Dirs |-> IF d = "orig" THEN hist.prod0 ELSE "none"]
    /\ expo = [d \in Dirs |-> IF d = "orig" THEN "input" ELSE "none"]
    /\ aux.asnCopy = FALSE /\ aux.completeOn = "none"

Invalid0(name) ==
    /\ name \in DOMAIN hist.environ0
    /\ lower(hist.environ0[name]) \notin ValidWords

NoTrailer == \A d \in Dirs : trl[d] = <<>>

EnvInvalid0 ==
    Invalid0(envvar_compute_name) \/ Invalid0(envvar_new_apriori_name)

\* C1: whenever verify_alignment has returned or raised, in any mode and
\* on any exit path, the working directory is the one it was entered in.
C1_CwdRestored ==
    va.vpc \in {"returned", "raised"} => cwd = hist.cwdAtCall

C1_Witness ==
    /\ va.vpc = "raised" /\ va.tmpdir = "aposteriori"
    /\ va.parent_dir = "work" /\ excn = "Exception" /\ cwd = "work"

C3_ForceKeepsResult ==
    (JustScored /\ va.tmpdir # "pipeline-default"
       /\ LastScore.focus /\ LastScore.sim > 1)
    => IF args.force_alignment
       THEN /\ prod[cwd] = va.tmpdir /\ expo[cwd] = va.tmpdir
            /\ InSomeTrailer("KEEPING potentially compromised astrometry solution")
       ELSE prod[cwd] # va.tmpdir /\ expo[cwd] # va.tmpdir

C5_RejectionPropagated ==
    /\ (JustScored /\ ~Accepted(LastScore)
          => prod[cwd] # va.tmpdir /\ expo[cwd] # va.tmpdir)
    /\ \A i \in 1..Len(hist.scores) :
          (hist.scores[i].tmpdir # "pipeline-default"
             /\ ~Accepted(hist.scores[i]))
          => align_dicts # hist.scores[i].tmpdir

\* C6: in aposteriori mode a table with a row of status != 0 makes
\* verify_alignment return None at once: no drizzle ran for the attempt
\* and nothing of it is in the parent directory.
C6_BadRowReturnsNone ==
    (va.tmpdir = "aposteriori" /\ HasBadRow(va.align_table))
    => /\ va.vpc = "returned" /\ va.result = "None"
       /\ va.ndriz = 0 /\ prod["aposteriori"] = "none"
       /\ prod[cwd] # "aposteriori" /\ expo[cwd] # "aposteriori"
       /\ cwd = hist.cwdAtCall

C6_Witness ==
    /\ va.tmpdir = "aposteriori" /\ va.align_table = <<0, 1>>
    /\ va.vpc = "returned" /\ va.result = "None"

\* C7: once verify_alignment has returned from an aposteriori attempt
\* whose table had a row of status != 0, a trailer file holds the line
\* "Could not align <image> to absolute astrometric frame".
C7_CouldNotAlignLogged ==
    (va.tmpdir = "aposteriori" /\ HasBadRow(va.align_table)
       /\ va.vpc = "returned")
    => InSomeTrailer("Could not align")

\* C8: with an invalid value in either control variable, process gets no
\* further than the two checks and ends by raising ValueError, with no
\* file or directory touched, the working directory unchanged and the
\* environment (ASTROMETRY_STEP_CONTROL included) as it was.
C8_InvalidEnvRaisesFirst ==
    EnvInvalid0
    => /\ pc \in {"start", "env2", "raised"}
       /\ (pc = "raised" => excn = "ValueError")
       /\ (pc = "env2" => ~Invalid0(envvar_compute_name))
       /\ environ = hist.environ0
       /\ FsUntouched

C8_Witness ==
    /\ pc = "raised" /\ excn = "ValueError"
    /\ envvar_compute_name \in DOMAIN environ
    /\ environ[envvar_compute_name] = <<"O", "F", "F">>
    /\ environ[envvar_new_apriori_name] = <<"m", "a", "y", "b", "e">>
    /\ envvar_old_apriori_name \in DOMAIN environ

\* what C9 expects of the a-posteriori attempt
EffectiveGaia ==
    IF envvar_compute_name \in DOMAIN hist.environ0
    THEN lower(hist.environ0[envvar_compute_name]) \in TrueWords
    ELSE args.align_to_gaia

PastGaiaDecision ==
    pc \in {"complete", "cleanup", "headerlets", "rmtmp", "restore",
            "final", "done"}

\* C9: the a-posteriori attempt is started only if the valid value of
\* ASTROMETRY_COMPUTE_APOSTERIORI maps to true or, with the variable
\* unset, align_to_gaia is true; and once process is past the apriori
\* attempt it has been started exactly in that case.
C9_EnvOverridesSwitch ==
    /\ ("aposteriori" \in hist.attempted => EffectiveGaia)
    /\ (PastGaiaDecision => ("aposteriori" \in hist.attempted <=> EffectiveGaia))

C9_Witness ==
    /\ pc = "done" /\ ~args.align_to_gaia
    /\ envvar_compute_name \in DOMAIN environ
    /\ environ[envvar_compute_name] = <<"Y", "e", "s">>
    /\ "aposteriori" \in hist.attempted

BadInput == args.inKind \in {"badtype", "missing", "notfits"}

\* C10 as stated: with a missing or unparseable input file process ends
\* by raising, with no state mutated.
C10_BadInputRaises ==
    (BadInput /\ pc \notin {"start", "env2", "open"})
    => pc = "raised" /\ FsUntouched

\* C10: with a missing input file, or a name buildRootname rejects,
\* process goes no further than opening the input and returns to its
\* caller without raising (an invalid environment value apart), having
\* written no trailer, created no directory and left the working
\* directory unchanged. With a file that cannot be read as FITS process
\* raises before any trailer is written, and with nothing created or
\* changed when newpath is not given.
C10_BadInputReturns ==
    /\ args.inKind \in {"badtype", "missing"}
       => /\ pc \in {"start", "env2", "open", "returned", "raised"}
          /\ (pc = "raised" => excn = "ValueError" /\ EnvInvalid0)
          /\ (pc = "returned" => excn = "")
          /\ FsUntouched
    /\ args.inKind = "notfits"
       => /\ pc \in {"start", "env2", "open", "setup", "raised"}
          /\ (pc = "raised" /\ ~EnvInvalid0 => excn = "OSError")
          /\ NoTrailer
          /\ (args.newpath = "none" => FsUntouched)

C10_Witness ==
    /\ pc = "returned" /\ args.inKind = "missing"
    /\ envvar_old_apriori_name \in DOMAIN hist.environ0
    /\ hist.environ0[envvar_old_apriori_name] = s_on
    /\ environ[envvar_old_apriori_name] = s_off

\* ---- the trailer file ----

Ended == pc \in {"done", "raised", "returned"}

InTrailerOf(dir, line) == \E i \in 1..Len(trl[dir]) : trl[dir][i] = line

IsPrefix(a, b) == Len(a) <= Len(b) /\ \A i \in 1..Len(a) : a[i] = b[i]

\* the files _appendTrlFile is given as its source
AppendedSources == {"_tmp.tra", "_pydriz_copy.log", "_align_copy.log"}

\* C11: every trailer message of a run goes to the one trailer file that
\* process created: no staging directory ever holds trailer lines of its
\* own, and when process has run to its end the lines written by run_driz
\* and by verify_alignment are in the trailer of the processing directory.
C11_OneTrailer ==
    /\ \A d \in Modes : trl[d] = <<>>
    /\ pc = "done" => /\ InTrailerOf(Holder, "astrodrizzle started")
                      /\ InTrailerOf(Holder, "Verification of alignment started")

\* C12: the trailer is append-only. Over every step of process up to the
\* removal of the staging directories, what each trailer file held before
\* the step is a prefix of what it holds after it; and no file handed to
\* _appendTrlFile as its source is left behind.
C12_AppendOnly ==
    /\ [][pc \notin {"rmtmp", "restore"}
          => \A d \in Dirs : IsPrefix(trl[d], trl'[d])]_vars
    /\ [](\A d \in Dirs : logs[d] \cap AppendedSources = {})

\* a trailer that has grown in two separate calls, the second one the
\* append of a log file's copy
C12_Witness ==
    /\ Len(trl["pipeline-default"]) >= 2
    /\ Len(trl[Holder]) >= 1
    /\ "_align.log" \in logs["aposteriori"]
    /\ InTrailerOf("aposteriori", "align log")

\* ---- the end of process ----

\* the staging directories still on disk
TmpDirsLeft == dirs \cap Modes

\* the file whose primary header carries DRIZCORR = COMPLETE is on disk
KeywordFileExists ==
    \/ aux.completeOn = "exposure" /\ expo[Holder] # "none"
    \/ aux.completeOn = "asncopy" /\ aux.asnCopy

\* C13: when a stage has raised inside process, the cleanup has been done
\* by the time the exception reaches the caller: with debug false no
\* staging directory is left, and with newpath given the working directory
\* is the one process was called in.
C13_CleanupBeforeRaise ==
    (pc = "raised" /\ hist.attempted # {})
    => /\ (~args.debug => TmpDirsLeft = {})
       /\ (args.newpath # "none" => cwd = "orig")

\* C14: whenever process has ended, normally or by raising, a drizzle
\* product of this run is in the parent directory only if DRIZCORR was set
\* to COMPLETE in this run.
C14_ProductOnlyIfComplete ==
    (Ended /\ prod[Holder] \in Modes) => aux.completeOn # "none"

\* C15: after process has completed normally on an input it processed,
\* DRIZCORR = COMPLETE is on the primary header of a file that is still on
\* disk, for a single exposure and for an association alike; and the
\* keyword is not written while an attempt is still to be made.
C15_CompleteOnSurvivingFile ==
    /\ (pc = "done" /\ hist.attempted # {}) => KeywordFileExists
    /\ aux.completeOn # "none"
       => pc \notin {"attempt", "complete"} /\ va.vpc = "idle"

\* C16: when process has ended with debug false, no staging directory is
\* left, a rejected later attempt included; with debug true every staging
\* directory that was made is still there.
C16_TmpDirsRemoved ==
    (Ended /\ hist.attempted # {})
    => IF args.debug THEN \A t \in hist.attempted : prod[t] # "none" => t \in dirs
       ELSE TmpDirsLeft = {}

\* the part of C16 that the code does keep: on normal completion
C16_TmpDirsRemovedOnReturn ==
    (pc = "done")
    => IF args.debug THEN \A t \in hist.attempted : prod[t] # "none" => t \in dirs
       ELSE TmpDirsLeft = {}

\* ---- the mask builder ----

\* 2^i
RECURSIVE Pow2(_)
Pow2(i) == IF i = 0 THEN 1 ELSE 2 * Pow2(i - 1)

\* the positions of the bits set in n
Bits(n) == {i \in 0..(n + 1) : (n \div Pow2(i)) % 2 = 1}

\* the integer whose set bits are those of a or of b
OrOf(a, b) == CHOOSE o \in 0..(a + b) : Bits(o) = Bits(a) \cup Bits(b)

MaskBuilt == mk.phase = "done" /\ mk.op = "buildMask"

MaskBuiltWithBits == MaskBuilt /\ mk.bitvalue # <<>>

\* C17: for every DQ array and every non-null bit selector the result of
\* buildMask has the shape of the DQ array, and its pixel p is 0 exactly
\* when (dq[p] | bit) > bit and 1 otherwise.
C17_MaskThreshold ==
    MaskBuiltWithBits
    => /\ mk.result.shape = mk.dq.shape
       /\ DOMAIN mk.result.data = DOMAIN mk.dq.data
       /\ \A p \in DOMAIN mk.dq.data :
             mk.result.data[p] =
                IF OrOf(mk.dq.data[p], mk.bitvalue[1]) > mk.bitvalue[1]
                THEN 0 ELSE 1

\* a mask with a 0 and a 1 in it
C17_Witness ==
    /\ MaskBuiltWithBits
    /\ mk.dq.shape = <<2, 2>>
    /\ mk.bitvalue[1] > 0
    /\ \E p, q \in DOMAIN mk.dq.data :
          /\ mk.result.data[p] = 0 /\ mk.result.data[q] = 1
          /\ mk.dq.data[q] # 0

\* C18 as the spec words it: the pixel is 0 exactly when dq[p] and the
\* selector have a set bit in common, and 1 otherwise.
C18_ZeroIffSharedBit ==
    MaskBuiltWithBits
    => \A p \in DOMAIN mk.dq.data :
          mk.result.data[p] =
             IF Bits(mk.dq.data[p]) \cap Bits(mk.bitvalue[1]) # {}
             THEN 0 ELSE 1

\* C18: the pixel is 0 exactly when dq[p] has a bit set that is not set
\* in the selector, and 1 otherwise: the selector names the DQ bits that
\* do not exclude a pixel.
C18_ZeroIffBitOutsideSelector ==
    MaskBuiltWithBits
    => \A p \in DOMAIN mk.dq.data :
          mk.result.data[p] =
             IF Bits(mk.dq.data[p]) \ Bits(mk.bitvalue[1]) # {}
             THEN 0 ELSE 1

\* a pixel that shares a bit with the selector and is 1, next to one
\* that shares none and is 0
C18_Witness ==
    /\ MaskBuiltWithBits
    /\ \E p, q \in DOMAIN mk.dq.data :
          /\ Bits(mk.dq.data[p]) \cap Bits(mk.bitvalue[1]) # {}
          /\ mk.result.data[p] = 1
          /\ Bits(mk.dq.data[q]) \cap Bits(mk.bitvalue[1]) = {}
          /\ mk.result.data[q] = 0

\* C19: with no bit selector buildMask returns an array of the shape of
\* the DQ array with every pixel 1.
C19_NoSelectorAllOnes ==
    (MaskBuilt /\ mk.bitvalue = <<>>)
    => /\ mk.result.shape = mk.dq.shape
       /\ DOMAIN mk.result.data = DOMAIN mk.dq.data
       /\ \A p \in DOMAIN mk.dq.data : mk.result.data[p] = 1

C19_Witness ==
    /\ MaskBuilt /\ mk.bitvalue = <<>>
    /\ mk.dq.shape = <<2, 2>>
    /\ \E p \in DOMAIN mk.dq.data : mk.dq.data[p] = MaxDQ

\* C20: in buildMaskImage every I/O or shape error (the input file cannot
\* be opened, neither a DQ nor a SCI extension, the mask cannot be
\* written) ends the call without raising: nothing is left under the
\* output name, the warning is printed and None is returned.
C20_ErrorsReturnNone ==
    (mk.phase = "done" /\ mk.op = "buildMaskImage" /\ mk.err # "none")
    => /\ ~mk.raised
       /\ mk.maskfile.state = "absent"
       /\ mk.warned
       /\ mk.ret = "None"

\* the part of C20 the code keeps: the errors raised inside the try
C20_ErrorsInsideTry ==
    (mk.phase = "done" /\ mk.op = "buildMaskImage"
        /\ mk.err \in {"noext", "write", "compare"})
    => /\ ~mk.raised
       /\ mk.maskfile.state = "absent"
       /\ mk.warned
       /\ mk.ret = "None"

\* ---- the shadow-mask builder ----

\* the unbinned shadow mask at the zero-based pixel (x, y)
Shadow0(x, y) == x >= sh.ex /\ y >= sh.ey

\* the four unbinned pixels under the binned pixel p (one-based)
Under(p) ==
    {<<2 * (p[1] - 1) + a, 2 * (p[2] - 1) + b>> : a \in {0, 1}, b \in {0, 1}}

\* the shadow mask, at the binning of the current call, at pixel p
ShadowAt(p) ==
    IF sh.binned = 1 THEN Shadow0(p[1] - 1, p[2] - 1)
    ELSE \A u \in Under(p) : Shadow0(u[1], u[2])

\* the DQ branch of the current call ran to its end
DQMaskWritten ==
    /\ sh.phase = "ready" /\ sh.ncalls > 0
    /\ sh.dqThere /\ sh.bitvalue # <<>>
    /\ sh.ret = "maskname"

\* C21: in buildShadowMaskImage a failure while reading the DQ file or
\* writing the DQ-based mask ends the call without raising: nothing is
\* left under the output name, a warning is printed and None is returned.
C21_ShadowErrorsReturnNone ==
    (sh.ncalls > 0 /\ sh.err \in {"open", "read", "write"})
    => /\ ~sh.raised
       /\ sh.out.state = "absent"
       /\ sh.warned
       /\ sh.ret = "None"

\* C22: with the DQ file there and a bit selector given, a pixel of the
\* output mask is 1 only if the DQ-based mask and the detector's shadow
\* mask are both 1 at that pixel.
C22_ComposedWithShadow ==
    DQMaskWritten
    => \A p \in DOMAIN sh.out.arr.data :
          sh.out.arr.data[p] = 1
          => /\ Bits(sh.dq.data[p]) \ Bits(sh.bitvalue[1]) = {}
             /\ ShadowAt(p)

\* the template of the current call was built by it, binned
BinnedBuilt ==
    /\ sh.ncalls > 0 /\ sh.built /\ sh.binned # 1
    /\ sh.template.state = "written"

\* C23: the binned shadow mask has half the height and half the width of
\* the unbinned mask, and its pixel (i, j) is 1 exactly when the unbinned
\* pixels (2i, 2j), (2i+1, 2j), (2i, 2j+1), (2i+1, 2j+1) are all 1.
C23_BinnedIsAndOfFour ==
    BinnedBuilt
    => /\ sh.template.arr.shape = <<ShadowSize \div 2, ShadowSize \div 2>>
       /\ DOMAIN sh.template.arr.data
             = Pixels(<<ShadowSize \div 2, ShadowSize \div 2>>)
       /\ \A p \in DOMAIN sh.template.arr.data :
             sh.template.arr.data[p] =
                IF \A u \in Under(p) : Shadow0(u[1], u[2]) THEN 1 ELSE 0

\* a binned mask with a 1 in it and a 0 over unbinned pixels that are
\* not all 0
C23_Witness ==
    /\ BinnedBuilt
    /\ \E p, q \in DOMAIN sh.template.arr.data :
          /\ sh.template.arr.data[p] = 1
          /\ sh.template.arr.data[q] = 0
          /\ \E u \in Under(q) : Shadow0(u[1], u[2])

\* ---- the driver ----

\* the step of lines 454-457 has put everything back
Restored ==
    /\ pc' = "final"
    /\ cwd' = "orig"
    /\ "work" \notin dirs'
    /\ prod'["orig"] = prod["work"]
    /\ expo'["orig"] = expo["work"]
    /\ trl'["orig"] = trl["work"]

\* C24: with newpath given, absolute or relative, a run that has come to
\* its last step goes on to return with the working directory back at the
\* original one, every file of the processing directory moved there and
\* the processing directory gone.
C24_ResultsRestored ==
    [][(pc = "restore" /\ args.newpath # "none") => Restored]_vars

\* the part of C24 the code keeps: an absolute newpath
C24_AbsoluteRestored ==
    [][(pc = "restore" /\ args.newpath = "abs") => Restored]_vars

\* the trailer of directory dir ends with the lines `tail`
EndsWith(dir, tail) ==
    /\ Len(trl[dir]) >= Len(tail)
    /\ \A i \in 1..Len(tail) :
          trl[dir][Len(trl[dir]) - Len(tail) + i] = tail[i]

\* C25: an exception of the WCS-correction step, in a-priori and in
\* a-posteriori mode, never leaves verify_alignment: no exception of the
\* WCS updater reaches process, and after an exception of the aligner the
\* attempt has returned a null result with its failure in the trailer.
C25_WcsFailureCaught ==
    /\ excn # "updatewcs"
    /\ (va.vpc = "returned" /\ va.tmpdir = "aposteriori"
          /\ va.align_table = <<>> /\ va.ndriz = 0)
       => /\ va.result = "None"
          /\ InTrailerOf("aposteriori", "EXCEPTION encountered in alignimages")

\* the drizzle engine has raised in the current attempt
DrizzleRaised == pc = "raised" /\ va.vpc = "raised" /\ excn = "Exception"

\* C26: when the drizzle engine raises for an input list, the trailer
\* handed to run_driz ends with the engine's log and the error message,
\* no later input list has been drizzled, no focus score is recorded for
\* the failing list, and the exception has passed through
\* verify_alignment (working directory restored) to process.
C26_DrizzleFailureLogged ==
    DrizzleRaised
    => /\ EndsWith(va.tmpdir, <<"astrodrizzle started", "drizzle log",
                                "ERROR: Could not complete astrodrizzle">>)
       /\ va.ndriz < NLists(args.inKind)
       /\ va.nfocus = va.ndriz
       /\ prod[va.tmpdir] # "none" => va.ndriz > 0
       /\ cwd = va.parent_dir

\* the engine raises on the second input list of an a-priori attempt
C26_Witness ==
    /\ DrizzleRaised
    /\ va.tmpdir = "apriori"
    /\ va.ndriz = 1

\* C27: for every attempt other than the pipeline-default one, the
\* reference the similarity is computed against is the product of the
\* pipeline-default attempt, an accepted a-priori attempt in between
\* notwithstanding.
C27_ReferenceIsDefault ==
    \A i \in 1..Len(hist.scores) :
        hist.scores[i].tmpdir # "pipeline-default"
        => hist.scores[i].ref = "pipeline-default"

\* C28: the a-priori attempt, and the a-posteriori one after it, are
\* started only when the pipeline-default attempt was verified.
C28_LaterOnlyIfDefaultVerified ==
    (hist.attempted \cap {"apriori", "aposteriori"} # {})
    => /\ Len(hist.scores) >= 1
       /\ hist.scores[1].tmpdir = "pipeline-default"
       /\ hist.scores[1].focus

\* process has gone past the DRIZCORR test on the skip branch
Skipped ==
    /\ ~args.force /\ aux.hdrDcorr # "PERFORM"
    /\ InTrailerOf(Holder, "pipeline started")
    /\ pc # "dcorr"

\* C29: with DRIZCORR not PERFORM and force false, process runs no
\* attempt and no drizzle, writes the 'astrodrizzle skipped' message to
\* the trailer and returns without raising, the final timestamp written.
C29_SkipCompletes ==
    Skipped
    => /\ hist.attempted = {}
       /\ pc # "raised"
       /\ InTrailerOf(Holder, "astrodrizzle skipped")
       /\ (pc = "done" => InTrailerOf(Holder, "astrodrizzle completed"))

\* C30: a headerlet is written for a calibrated exposure only when
\* headerlets is set and no headerlet of that name exists: an existing
\* one is never replaced, and with headerlets off none is written.
C30_HeaderletOnlyIfAbsent ==
    [][aux'.hlet # aux.hlet
       => /\ pc = "headerlets" /\ args.headerlets
          /\ aux.hlet = "none" /\ aux'.hlet = "OPUS"]_vars

\* headerlets on, and the headerlet of an earlier run still there after
\* the export
C30_Witness ==
    /\ pc = "done" /\ args.headerlets
    /\ aux.hlet = "pre"

\* ---- the mask of an image without DQ extension ----

IsAsn == args.inKind \in {"asn", "asnflc"}

\* the upper-case letters of the member names, with their lower case
CasePairs == {<<"T", "t">>, <<"A", "a">>, <<"E", "e">>}

\* name b is name a in lower case
LowerOf(a, b) ==
    /\ Len(b) = Len(a)
    /\ \A k \in 1..Len(a) :
          IF \E cp \in CasePairs : cp[1] = a[k]
          THEN <<a[k], b[k]>> \in CasePairs
          ELSE b[k] = a[k]

\* C32: the member names are in lower case before anything is processed:
\* while the '_pipeline' copy exists every MEMNAME in it is the lower case
\* of the original's, no attempt runs on an association without the copy,
\* the copy is gone when process has returned normally, and the original
\* association table is never modified.
C32_MembersLowered ==
    /\ [](aux.asnCopy
            => /\ Len(aux.copyMembers) = Len(aux.members)
               /\ \A i \in 1..Len(aux.members) :
                     LowerOf(aux.members[i], aux.copyMembers[i]))
    /\ []((IsAsn /\ pc = "attempt") => aux.asnCopy)
    /\ [](pc = "done" => ~aux.asnCopy)
    /\ [][aux'.members = aux.members]_vars

\* an attempt running on the copy of a table whose second member had to
\* be converted
C32_Witness ==
    /\ pc = "attempt" /\ va.vpc = "driz"
    /\ aux.asnCopy
    /\ aux.copyMembers # aux.members
    /\ aux.members[2] # aux.copyMembers[2]

\* C33: the finally block of verify_alignment never fails: whenever it
\* has run, parent_dir had been recorded, and an exception of the staging
\* (raised before the working directory changes) reaches process as that
\* exception.
C33_FinallyNeverFails ==
    /\ (va.vpc \in {"raised", "returned"}) => va.parent_dir # "unbound"
    /\ (va.vpc = "raised" /\ va.parent_dir = "unbound") => excn = "OSError"
    /\ excn # "UnboundLocalError"

\* the call copied the cached template to its output
TemplateCopied ==
    /\ sh.ncalls > 0 /\ sh.ret = "maskname"
    /\ (~sh.dqThere \/ sh.bitvalue = <<>>)
    /\ sh.out.state = "written"

\* C34: over any sequence of buildShadowMaskImage calls for one detector,
\* the template copied to the output has the binning the current call
\* asked for: the size of an unbinned array for binned = 1, half of it for
\* binned = 2.
C34_TemplateMatchesBinning ==
    TemplateCopied
    => sh.out.arr.shape = <<ShadowSize \div sh.binned, ShadowSize \div sh.binned>>
====
